---- MODULE Spec2Model ----
(***************************************************************************)
(* A model of streamlit_app.py, the General-Purpose AI Model               *)
(* Classification Tool: one run of the script from its first widget to the *)
(* CSV summary.  One action per step of the script; every st.radio and     *)
(* st.text_area return value is an input drawn from the widget's options.  *)
(***************************************************************************)
EXTENDS Integers, Sequences, FiniteSets, TLC

(***************************************************************************)
(* Python floats.  A float is held exactly, as the natural number          *)
(* value * 2^60 written in limbs of 15 bits, least significant first.       *)
(* Every operation computes the exact result and rounds it to 53           *)
(* significant bits, ties to even, as IEEE-754 binary64 arithmetic does.   *)
(***************************************************************************)
Base == 2^15

RECURSIVE Trim(_)
Trim(a) ==
    IF a # <<>> /\ a[Len(a)] = 0 THEN Trim(SubSeq(a, 1, Len(a) - 1)) ELSE a

RECURSIVE AddCarry(_, _, _)
AddCarry(a, b, c) ==
    IF a = <<>> /\ b = <<>>
    THEN IF c = 0 THEN <<>> ELSE <<c>>
    ELSE LET x == IF a = <<>> THEN 0 ELSE Head(a)
             y == IF b = <<>> THEN 0 ELSE Head(b)
             s == x + y + c
         IN  <<s % Base>> \o AddCarry(IF a = <<>> THEN a ELSE Tail(a),
                                      IF b = <<>> THEN b ELSE Tail(b),
                                      s \div Base)

BigAdd(a, b) == AddCarry(a, b, 0)

RECURSIVE MulSmall(_, _, _)
MulSmall(a, d, c) ==
    IF a = <<>>
    THEN IF c = 0 THEN <<>> ELSE <<c % Base>> \o MulSmall(a, d, c \div Base)
    ELSE LET p == Head(a) * d + c
         IN  <<p % Base>> \o MulSmall(Tail(a), d, p \div Base)

RECURSIVE BigMul(_, _)
BigMul(a, b) ==
    IF a = <<>> THEN <<>>
    ELSE BigAdd(MulSmall(b, Head(a), 0), <<0>> \o BigMul(Tail(a), b))

\* a divided by the small number d, from the most significant limb down;
\* i is the limb in hand and r the remainder carried into it
RECURSIVE DivQuot(_, _, _, _)
DivQuot(a, d, i, r) ==
    IF i = 0 THEN <<>>
    ELSE DivQuot(a, d, i - 1, (r * Base + a[i]) % d) \o <<(r * Base + a[i]) \div d>>

RECURSIVE DivRem(_, _, _, _)
DivRem(a, d, i, r) ==
    IF i = 0 THEN r ELSE DivRem(a, d, i - 1, (r * Base + a[i]) % d)

DivSmall(a, d) == [q |-> DivQuot(a, d, Len(a), 0), r |-> DivRem(a, d, Len(a), 0)]

RECURSIVE CmpFrom(_, _, _)
CmpFrom(a, b, i) ==
    IF i = 0 THEN 0
    ELSE IF a[i] < b[i] THEN -1
    ELSE IF a[i] > b[i] THEN 1
    ELSE CmpFrom(a, b, i - 1)

BigCmp(a, b) ==
    LET x == Trim(a)
        y == Trim(b)
    IN  IF Len(x) < Len(y) THEN -1
        ELSE IF Len(x) > Len(y) THEN 1
        ELSE CmpFrom(x, y, Len(x))

RECURSIVE Bits(_)
Bits(n) == IF n = 0 THEN 0 ELSE 1 + Bits(n \div 2)

BitLen(a) ==
    LET x == Trim(a)
    IN  IF x = <<>> THEN 0 ELSE 15 * (Len(x) - 1) + Bits(x[Len(x)])

Zeros(k) == [i \in 1..k |-> 0]

ShiftRight(a, sh) ==
    LET k == sh \div 15
        t == sh % 15
        x == SubSeq(a, k + 1, Len(a))
    IN  [i \in 1..Len(x) |->
            (x[i] \div 2^t)
            + (IF i < Len(x) THEN (x[i + 1] % 2^t) * 2^(15 - t) ELSE 0)]

LowBits(a, sh) ==
    LET k == sh \div 15
        t == sh % 15
    IN  SubSeq(a, 1, k) \o (IF k < Len(a) THEN <<a[k + 1] % 2^t>> ELSE <<>>)

ShiftLeft(a, sh) == Zeros(sh \div 15) \o MulSmall(a, 2^(sh % 15), 0)

\* round to nearest, ties to even, at 53 significant bits
Round53(a) ==
    LET len == BitLen(a)
    IN  IF len <= 53 THEN Trim(a)
        ELSE LET sh   == len - 53
                 q    == ShiftRight(Trim(a), sh)
                 low  == LowBits(Trim(a), sh)
                 half == ShiftLeft(<<1>>, sh - 1)
                 c    == BigCmp(low, half)
                 up   == c > 0 \/ (c = 0 /\ q[1] % 2 = 1)
             IN  Trim(ShiftLeft(IF up THEN BigAdd(q, <<1>>) ELSE q, sh))

\* a / n for Python ints: the true quotient, correctly rounded
FloatDiv(a, n) ==
    LET d == DivSmall(MulSmall(Zeros(4) \o <<2^14>>, a, 0), n)
        y == BigAdd(MulSmall(d.q, 2, 0), IF d.r = 0 THEN <<>> ELSE <<1>>)
    IN  Trim(Tail(Round53(y)))

FloatMul(x, y) ==
    LET p == Round53(BigMul(x, y))
    IN  Trim(SubSeq(p, 5, Len(p)))

FloatAdd(x, y) == Round53(BigAdd(x, y))

FloatLeq(x, y) == BigCmp(x, y) <= 0

\* a decimal literal num/den, converted as Python's parser converts it
FloatLit(num, den) == FloatDiv(num, den)


(***************************************************************************)
(* Python values.                                                          *)
(***************************************************************************)
\* a name the script has not bound yet
Unbound == "<unbound>"

\* the empty dict; a dict is a function from its keys
EmptyDict == <<>>

Range(seq) == {seq[i] : i \in 1..Len(seq)}

\* sum(d.values())
RECURSIVE SumOver(_, _)
SumOver(d, keys) ==
    IF keys = {} THEN 0
    ELSE LET k == CHOOSE x \in keys : TRUE
         IN  d[k] + SumOver(d, keys \ {k})

SumValues(d) == SumOver(d, DOMAIN d)

\* d.get(key, default)
Get(d, key, default) == IF key \in DOMAIN d THEN d[key] ELSE default

YesNo == {"Yes", "No"}

(***************************************************************************)
(* The script's question tables and messages.                              *)
(***************************************************************************)
MsgExcluded == "Your model is automatically excluded from GPAI assessment."
MsgNotProvider == "Unmodified third-party models are excluded from GPAI obligations."
MsgEliminated == "Pre-screening outcome: Model is eliminated from GPAI classification."
\* the dash of the source text is written " - "
MsgMinor == "Minor modifications only - no provider obligations apply."

pre_questions == <<"params_below", "trained_specialized", "single_task", "adaptability">>

intended_purpose_subcriteria ==
    <<"new_use_case", "stakeholder_variation", "regulatory_regime_shift">>
architectural_subcriteria == <<"nature_of_change", "impact_on_model_structure">>
data_subcriteria ==
    <<"data_volume_adjustment", "data_diversity", "data_quality", "retraining_impact">>
performance_subcriteria ==
    <<"quantitative_performance", "qualitative_risk", "adversarial_testing">>
future_deployment_subcriteria ==
    <<"integration_context", "end_user_experience", "regulatory_compliance">>

\* the five rated groups, in the order the script rates them
Groups == <<"intended_purpose", "architectural", "data", "performance", "future_deployment">>

Subcriteria(g) ==
    CASE g = "intended_purpose"  -> intended_purpose_subcriteria
      [] g = "architectural"     -> architectural_subcriteria
      [] g = "data"              -> data_subcriteria
      [] g = "performance"       -> performance_subcriteria
      [] g = "future_deployment" -> future_deployment_subcriteria

\* options=[1, 2, 3, 4, 5]
RatingOptions == 1..5

detailed_questions ==
    [params      |-> ("Yes" :> 2 @@ "No" :> 0),
     training    |-> ("Yes" :> 2 @@ "Partly" :> 1 @@ "No" :> 0),
     tasks       |-> ("Yes" :> 2 @@ "Partly" :> 1 @@ "No" :> 0),
     generative  |-> ("Yes" :> 2 @@ "Partly" :> 1 @@ "No" :> 0),
     modality    |-> ("Multi-modal" :> 2 @@ "Single-flexible" :> 1 @@ "Single-specialized" :> 0),
     integration |-> ("Yes" :> 2 @@ "No" :> 0),
     use_cases   |-> ("Yes" :> 2 @@ "Partial" :> 1 @@ "No" :> 0)]

detailed_keys ==
    <<"params", "training", "tasks", "generative", "modality", "integration", "use_cases">>

sys_risk_questions == <<"flops", "state_of_art", "scalability", "scaffolding">>

WithSystemicRisk == "GPAI with systemic risk"
WithoutSystemicRisk == "GPAI without systemic risk"

(***************************************************************************)
(* The script's decisions, each as the expression the script evaluates.    *)
(***************************************************************************)
\* AutoExcluded comparing against a misspelt option
AutoExcludedLowercase(answer) == answer = "yes"

\* if auto_exclude == 'Yes'
AutoExcluded(answer) == answer = "Yes"

\* if thirdparty_modified == "No", inside the "Third Party" branch
UnmodifiedThirdParty(origin, modified) == origin = "Third Party" /\ modified = "No"

\* Eliminated with the first pair joined by "or"
EliminatedAnyOf(pre) ==
    \/ (pre["params_below"] = "Yes" \/ pre["trained_specialized"] = "Yes")
    \/ pre["single_task"] = "Yes"
    \/ pre["adaptability"] = "Yes"

\* the pre-screening condition
Eliminated(pre) ==
    \/ (pre["params_below"] = "Yes" /\ pre["trained_specialized"] = "Yes")
    \/ pre["single_task"] = "Yes"
    \/ pre["adaptability"] = "Yes"

\* ModificationAssessed without the test of the origin
ModificationAssessedAnyOrigin(origin, modified) == modified # "No"

\* if developed_internally == "Third Party" and thirdparty_modified == "Yes"
ModificationAssessed(origin, modified) == origin = "Third Party" /\ modified = "Yes"

\* Average dividing by the size of the first group, whatever the group
AverageOfThree(ratings) == FloatDiv(SumValues(ratings), 3)

\* sum(scores.values()) / len(scores)
Average(ratings) == FloatDiv(SumValues(ratings), Cardinality(DOMAIN ratings))

\* the weight the weighted sum gives a group's average
GroupWeight(g) ==
    CASE g = "intended_purpose"  -> FloatLit(30, 100)
      [] g = "architectural"     -> FloatLit(25, 100)
      [] g = "data"              -> FloatLit(20, 100)
      [] g = "performance"       -> FloatLit(15, 100)
      [] g = "future_deployment" -> FloatLit(10, 100)

\* the weighted sum, added left to right
OverallScore(a) ==
    FloatAdd(FloatAdd(FloatAdd(FloatAdd(
        FloatMul(GroupWeight("intended_purpose"), a["intended_purpose"]),
        FloatMul(GroupWeight("architectural"), a["architectural"])),
        FloatMul(GroupWeight("data"), a["data"])),
        FloatMul(GroupWeight("performance"), a["performance"])),
        FloatMul(GroupWeight("future_deployment"), a["future_deployment"]))

\* if overall_score <= 3.5
MinorModification(overall) == FloatLeq(overall, FloatLit(35, 10))

\* score += scoring[answers[key]], over the questions in order
RECURSIVE ScoreFrom(_, _)
ScoreFrom(a, i) ==
    IF i > Len(detailed_keys) THEN 0
    ELSE detailed_questions[detailed_keys[i]][a[detailed_keys[i]]] + ScoreFrom(a, i + 1)

DetailedScore(a) == ScoreFrom(a, 1)

\* the elif branch: the borderline radio and rationale are rendered
Borderline(s) == ~(s >= 10) /\ s >= 6

\* Classification with the upper threshold off by one
ClassificationAbove10(s, borderline) ==
    IF s > 10 THEN "GPAI"
    ELSE IF s >= 6 THEN borderline
    ELSE "Not GPAI"

\* the scoring-based classification; borderline is the radio's value
Classification(s, borderline) ==
    IF s >= 10 THEN "GPAI"
    ELSE IF s >= 6 THEN borderline
    ELSE "Not GPAI"

\* SystemicRiskAssessed for any classification
SystemicRiskAssessedAnyClass(class) == class \in {"GPAI", "Not GPAI"}

\* if classification == "GPAI"
SystemicRiskAssessed(class) == class = "GPAI"

HardTrigger(sys) == sys["flops"] = "Yes" \/ sys["state_of_art"] = "Yes"

\* the elif branch: the final decision radio and rationale are rendered
SystemicBorderline(sys) ==
    ~HardTrigger(sys) /\ (sys["scalability"] = "Yes" \/ sys["scaffolding"] = "Yes")

\* SystemicClassification with flops as the only hard trigger
SystemicClassificationFlopsOnly(sys, final_decision) ==
    IF sys["flops"] = "Yes" THEN WithSystemicRisk
    ELSE IF sys["scalability"] = "Yes" \/ sys["scaffolding"] = "Yes" THEN final_decision
    ELSE WithoutSystemicRisk

\* final_decision is the radio's value
SystemicClassification(sys, final_decision) ==
    IF HardTrigger(sys) THEN WithSystemicRisk
    ELSE IF sys["scalability"] = "Yes" \/ sys["scaffolding"] = "Yes" THEN final_decision
    ELSE WithoutSystemicRisk

BaseObligations ==
    <<"Provide technical documentation (Article 53(1)(a-b))",
      "Public summary of training content (Article 53(1)(d))",
      "Copyright compliance policy (Article 53(1)(c))">>

SystemicObligations ==
    <<"Systemic risk assessment and mitigation",
      "Serious incident monitoring and reporting",
      "Cybersecurity protection">>

\* ApplicableObligations listing the base obligations in both branches
ApplicableObligationsBaseOnly(systemic) ==
    IF systemic = WithSystemicRisk THEN BaseObligations
    ELSE IF systemic = WithoutSystemicRisk THEN BaseObligations
    ELSE <<>>

\* the obligations listed under "The following obligations apply:"
ApplicableObligations(systemic) ==
    IF systemic = WithSystemicRisk THEN BaseObligations \o SystemicObligations
    ELSE IF systemic = WithoutSystemicRisk THEN BaseObligations
    ELSE <<>>

\* for k, v in d.items(): all_data[f"{prefix}{k}"] = v
Prefixed(prefix, d) ==
    [col \in {prefix \o k : k \in DOMAIN d} |->
        d[CHOOSE k \in DOMAIN d : prefix \o k = col]]

\* the row gathered in the final step; a later assignment to a key replaces
\* an earlier one, so the later dicts stand first
AllData(name, owner, class, systemic, mod, pre, det, sys, session) ==
    ("Step5_SysRationale" :> Get(session, "sys_rationale", ""))
    @@ ("Step4_Manual_Rationale" :> Get(session, "manual_rationale", ""))
    @@ Prefixed("Step5_SysRisk_", sys)
    @@ Prefixed("Step4_Detailed_", det)
    @@ Prefixed("Step3_PreScreen_", pre)
    @@ Prefixed("Step2_ModAssessment_", mod)
    @@ ("Model Name" :> name
        @@ "Model Owner" :> owner
        @@ "Final Classification" :> class
        @@ "Systemic Risk Classification" :> (IF class = "GPAI" THEN systemic ELSE "N/A"))

(***************************************************************************)
(* The state of one run of the script.                                     *)
(***************************************************************************)
VARIABLES
    pc,                      \* the step the run is at
    stop_message,            \* the message shown before st.stop(), "" if none
    auto_exclude, developed_internally, thirdparty_modified,
    pre_answers,
    scores,                  \* group |-> its <group>_scores dict
    avg,                     \* group |-> its <group>_avg
    overall_score,
    sub_mod_assessment,
    answers, score, classification,
    sys_risk_answers, systemic_classification,
    obligations,             \* the obligations shown
    session_state,           \* the borderline widgets' values, by widget key
    model_name, model_owner,
    all_data,
    df                       \* the rows handed to pd.DataFrame on download, <<>> if none

vars ==
    <<pc, stop_message, auto_exclude, developed_internally, thirdparty_modified,
      pre_answers, scores, avg, overall_score, sub_mod_assessment, answers, score,
      classification, sys_risk_answers, systemic_classification, obligations,
      session_state, model_name, model_owner, all_data, df>>

providerVars == <<developed_internally, thirdparty_modified>>
mcdaVars == <<scores, avg, overall_score, sub_mod_assessment>>
detailedVars == <<answers, score, classification>>
systemicVars == <<sys_risk_answers, systemic_classification, obligations>>
finalVars == <<model_name, model_owner, all_data, df>>

Init ==
    /\ pc = "Step1"
    /\ stop_message = ""
    /\ auto_exclude = Unbound
    /\ developed_internally = Unbound
    /\ thirdparty_modified = Unbound
    /\ pre_answers = EmptyDict
    /\ scores = EmptyDict
    /\ avg = EmptyDict
    /\ overall_score = Unbound
    /\ sub_mod_assessment = EmptyDict
    /\ answers = EmptyDict
    /\ score = Unbound
    /\ classification = Unbound
    /\ sys_risk_answers = EmptyDict
    /\ systemic_classification = Unbound
    /\ obligations = <<>>
    /\ session_state = EmptyDict
    /\ model_name = Unbound
    /\ model_owner = Unbound
    /\ all_data = EmptyDict
    /\ df = <<>>

\* st.stop() after showing msg
Stop(msg) == pc' = "Stopped" /\ stop_message' = msg

Continue(next) == pc' = next /\ UNCHANGED stop_message

(***************************************************************************)
(* The steps of the script.                                                *)
(***************************************************************************)
Step1 ==
    /\ pc = "Step1"
    /\ \E a \in YesNo :
        /\ auto_exclude' = a
        /\ IF AutoExcluded(a) THEN Stop(MsgExcluded) ELSE Continue("Step2")
    /\ UNCHANGED <<providerVars, pre_answers, mcdaVars, detailedVars, systemicVars,
                   session_state, finalVars>>

Step2 ==
    /\ pc = "Step2"
    /\ \E origin \in {"Internally Developed", "Third Party"}, modified \in YesNo :
        /\ developed_internally' = origin
        /\ thirdparty_modified' = IF origin = "Third Party" THEN modified ELSE "N/A"
        /\ IF UnmodifiedThirdParty(origin, thirdparty_modified')
           THEN Stop(MsgNotProvider)
           ELSE Continue("Step3")
    /\ UNCHANGED <<auto_exclude, pre_answers, mcdaVars, detailedVars, systemicVars,
                   session_state, finalVars>>

Step3(PreIn) ==
    /\ pc = "Step3"
    /\ \E pre \in PreIn :
        /\ pre_answers' = pre
        /\ IF Eliminated(pre) THEN Stop(MsgEliminated)
           ELSE IF ModificationAssessed(developed_internally, thirdparty_modified)
                THEN Continue("Step3a_intended_purpose")
                ELSE Continue("Step4")
    /\ UNCHANGED <<auto_exclude, providerVars, mcdaVars, detailedVars, systemicVars,
                   session_state, finalVars>>

\* one rated group of Step 3a: its radios and its average
RateGroup(g, next, RatingsIn) ==
    /\ pc = "Step3a_" \o g
    /\ \E ratings \in RatingsIn[g] :
        /\ scores' = (g :> ratings) @@ scores
        /\ avg' = (g :> Average(ratings)) @@ avg
    /\ Continue(next)
    /\ UNCHANGED <<auto_exclude, providerVars, pre_answers, overall_score,
                   sub_mod_assessment, detailedVars, systemicVars, session_state,
                   finalVars>>

IntendedPurposeChange(RatingsIn) ==
    RateGroup("intended_purpose", "Step3a_architectural", RatingsIn)

ArchitecturalChanges(RatingsIn) ==
    RateGroup("architectural", "Step3a_data", RatingsIn)

DataTrainingChanges(RatingsIn) ==
    RateGroup("data", "Step3a_performance", RatingsIn)

PerformanceRiskImpact(RatingsIn) ==
    RateGroup("performance", "Step3a_future_deployment", RatingsIn)

FutureDeploymentChange(RatingsIn) ==
    RateGroup("future_deployment", "Step3a_overall", RatingsIn)

OverallModificationScore ==
    /\ pc = "Step3a_overall"
    /\ overall_score' = OverallScore(avg)
    /\ IF MinorModification(overall_score')
       THEN Stop(MsgMinor) /\ UNCHANGED sub_mod_assessment
       ELSE /\ Continue("Step4")
            /\ sub_mod_assessment' =
                   [intended_purpose_avg  |-> avg["intended_purpose"],
                    architectural_avg     |-> avg["architectural"],
                    data_avg              |-> avg["data"],
                    performance_avg       |-> avg["performance"],
                    future_deployment_avg |-> avg["future_deployment"],
                    overall_score         |-> overall_score']
    /\ UNCHANGED <<auto_exclude, providerVars, pre_answers, scores, avg, detailedVars,
                   systemicVars, session_state, finalVars>>

Step4(DetailedIn, TextIn) ==
    /\ pc = "Step4"
    /\ \E a \in DetailedIn, borderline \in {"GPAI", "Not GPAI"}, rationale \in TextIn :
        /\ answers' = a
        /\ score' = DetailedScore(a)
        /\ classification' = Classification(score', borderline)
        /\ session_state' =
               IF Borderline(score')
               THEN ("borderline" :> borderline @@ "manual_rationale" :> rationale)
                    @@ session_state
               ELSE session_state
    /\ IF SystemicRiskAssessed(classification') THEN Continue("Step5") ELSE Continue("Final")
    /\ UNCHANGED <<auto_exclude, providerVars, pre_answers, mcdaVars, systemicVars,
                   finalVars>>

Step5(SystemicIn, TextIn) ==
    /\ pc = "Step5"
    /\ \E a \in SystemicIn, final_decision \in {WithSystemicRisk, WithoutSystemicRisk},
          rationale \in TextIn :
        /\ sys_risk_answers' = a
        /\ systemic_classification' = SystemicClassification(a, final_decision)
        /\ session_state' =
               IF SystemicBorderline(a)
               THEN ("final_sys_decision" :> final_decision @@ "sys_rationale" :> rationale)
                    @@ session_state
               ELSE session_state
    /\ obligations' = ApplicableObligations(systemic_classification')
    /\ Continue("Final")
    /\ UNCHANGED <<auto_exclude, providerVars, pre_answers, mcdaVars, detailedVars,
                   finalVars>>

FinalStep(NamesIn) ==
    /\ pc = "Final"
    /\ \E name \in NamesIn, owner \in NamesIn, clicked \in BOOLEAN :
        /\ model_name' = name
        /\ model_owner' = owner
        /\ all_data' = AllData(name, owner, classification, systemic_classification,
                               sub_mod_assessment, pre_answers, answers,
                               sys_risk_answers, session_state)
        /\ df' = IF clicked THEN <<all_data'>> ELSE <<>>
    /\ Continue("End")
    /\ UNCHANGED <<auto_exclude, providerVars, pre_answers, mcdaVars, detailedVars,
                   systemicVars, session_state>>

Next(In) ==
    \/ Step1
    \/ Step2
    \/ Step3(In.pre)
    \/ IntendedPurposeChange(In.ratings)
    \/ ArchitecturalChanges(In.ratings)
    \/ DataTrainingChanges(In.ratings)
    \/ PerformanceRiskImpact(In.ratings)
    \/ FutureDeploymentChange(In.ratings)
    \/ OverallModificationScore
    \/ Step4(In.detailed, In.text)
    \/ Step5(In.systemic, In.text)
    \/ FinalStep(In.names)

(***************************************************************************)
(* The answers a run may be given.  Every st.radio returns one of its      *)
(* options; the sets below are all of a step's answers, or a named part of *)
(* them where the whole would be too many to enumerate together.           *)
(***************************************************************************)
\* the most subcriteria of one group over which a mixed rating is spread
MaxMixed == 1

AllPreAnswers == [Range(pre_questions) -> YesNo]

AllSystemicAnswers == [Range(sys_risk_questions) -> YesNo]

AllDetailedAnswers ==
    [params      : DOMAIN detailed_questions["params"],
     training    : DOMAIN detailed_questions["training"],
     tasks       : DOMAIN detailed_questions["tasks"],
     generative  : DOMAIN detailed_questions["generative"],
     modality    : DOMAIN detailed_questions["modality"],
     integration : DOMAIN detailed_questions["integration"],
     use_cases   : DOMAIN detailed_questions["use_cases"]]

\* the answers that give the five three-option questions the same points
LevelDetailedAnswers ==
    {a \in AllDetailedAnswers :
        \A j, k \in {"training", "tasks", "generative", "modality", "use_cases"} :
            detailed_questions[j][a[j]] = detailed_questions[k][a[k]]}

\* every subcriterion of group g rated alike, with a rating of R
UniformRatings(g, R) == {[k \in Range(Subcriteria(g)) |-> r] : r \in R}

\* the first j subcriteria of group g rated 5 and the others 4
MixedRatings(g) ==
    LET sub == Subcriteria(g)
        Position(k) == CHOOSE i \in 1..Len(sub) : sub[i] = k
        most == IF MaxMixed < Len(sub) - 1 THEN MaxMixed ELSE Len(sub) - 1
    IN  {[k \in Range(sub) |-> IF Position(k) <= j THEN 5 ELSE 4] : j \in 1..most}

AllNo(keys) == [k \in Range(keys) |-> "No"]
AllYes(keys) == [k \in Range(keys) |-> "Yes"]

\* the whole pipeline: every pre-screening and systemic answer
PipelineInputs ==
    [pre      |-> AllPreAnswers,
     ratings  |-> [g \in Range(Groups) |-> UniformRatings(g, {1, 4})],
     detailed |-> LevelDetailedAnswers,
     systemic |-> AllSystemicAnswers,
     text     |-> {"", "rationale"},
     names    |-> {"", "model"}]

\* every answer to the detailed questions
DetailedInputs ==
    [pre      |-> {AllNo(pre_questions), AllYes(pre_questions)},
     ratings  |-> [g \in Range(Groups) |-> UniformRatings(g, {5})],
     detailed |-> AllDetailedAnswers,
     systemic |-> {AllNo(sys_risk_questions), AllYes(sys_risk_questions)},
     text     |-> {"", "rationale"},
     names    |-> {"model"}]

\* the modification assessment: every uniform rating of every group, and the mixed ones
ModificationInputs ==
    [pre      |-> {AllNo(pre_questions), AllYes(pre_questions)},
     ratings  |-> [g \in Range(Groups) |->
                      UniformRatings(g, RatingOptions) \cup MixedRatings(g)],
     detailed |-> {a \in AllDetailedAnswers : DetailedScore(a) \in {0, 14}},
     systemic |-> {AllNo(sys_risk_questions)},
     text     |-> {""},
     names    |-> {"model"}]

Spec == Init /\ [][Next(PipelineInputs)]_vars

SpecDetailed == Init /\ [][Next(DetailedInputs)]_vars

SpecModification == Init /\ [][Next(ModificationInputs)]_vars

(***************************************************************************)
(* Properties.                                                             *)
(***************************************************************************)
IsEmpty(d) == DOMAIN d = {}

Step3aSteps == {"Step3a_" \o Groups[i] : i \in 1..Len(Groups)} \cup {"Step3a_overall"}

ThirdPartyModified == developed_internally = "Third Party" /\ thirdparty_modified = "Yes"

\* the overall modification score has been computed and acted on
ModificationScored == DOMAIN scores = Range(Groups) /\ pc # "Step3a_overall"

\* 1200 times the weighted score of the recorded ratings, in exact arithmetic:
\* weights 30, 25, 20, 15 and 10 percent over groups of 3, 2, 4, 3 and 3 subcriteria
ExactOverallTimes1200 ==
    30 * 4 * SumValues(scores["intended_purpose"])
    + 25 * 6 * SumValues(scores["architectural"])
    + 20 * 3 * SumValues(scores["data"])
    + 15 * 4 * SumValues(scores["performance"])
    + 10 * 4 * SumValues(scores["future_deployment"])

\* C1: for a modified third-party model the pre-screening gate is evaluated only
\* after the modification has been found substantial, so that a modification
\* that is not substantial halts the run as a minor modification whatever the
\* four pre-screening answers are: no pre-screening answer is recorded before the
\* substantial modification scores have been saved.
C1_ModificationBeforePreScreening ==
    (ThirdPartyModified /\ ~IsEmpty(pre_answers)) => ~IsEmpty(sub_mod_assessment)

\* C2: while a borderline detailed stage (score 6..9) or a borderline systemic
\* stage (no hard trigger, scalability or scaffolding Yes) has no rationale, the
\* stage stays pending: its verdict is not set and no export record is assembled.
C2_BorderlineAwaitsRationale ==
    /\ (~IsEmpty(answers) /\ score \in 6..9
            /\ Get(session_state, "manual_rationale", "") = "")
        => (classification = Unbound /\ IsEmpty(all_data))
    /\ (~IsEmpty(sys_risk_answers)
            /\ sys_risk_answers["flops"] = "No" /\ sys_risk_answers["state_of_art"] = "No"
            /\ (sys_risk_answers["scalability"] = "Yes" \/ sys_risk_answers["scaffolding"] = "Yes")
            /\ Get(session_state, "sys_rationale", "") = "")
        => (systemic_classification = Unbound /\ IsEmpty(all_data))

\* C3: once the four pre-screening answers are recorded, the run has halted as
\* eliminated exactly when (params_below and trained_specialized) or single_task
\* or adaptability is Yes; otherwise it has moved on to a later step.
C3_PreScreeningTruthTable ==
    ~IsEmpty(pre_answers) =>
        IF \/ (pre_answers["params_below"] = "Yes" /\ pre_answers["trained_specialized"] = "Yes")
           \/ pre_answers["single_task"] = "Yes"
           \/ pre_answers["adaptability"] = "Yes"
        THEN pc = "Stopped" /\ stop_message = MsgEliminated
        ELSE /\ stop_message # MsgEliminated
             /\ pc \in Step3aSteps \cup {"Step4", "Step5", "Final", "End", "Stopped"}
             /\ pc = "Stopped" => stop_message = MsgMinor

\* the conjunction is needed: params_below alone does not eliminate
C3_Witness ==
    /\ ~IsEmpty(pre_answers)
    /\ pre_answers["params_below"] = "Yes" /\ pre_answers["trained_specialized"] = "No"
    /\ pc = "Step4"

\* C4: the detailed score is an integer in 0..14 and alone decides the outcome:
\* 10 and above is GPAI, 6..9 is borderline and the verdict is the manual
\* decision, 5 and below is Not GPAI.
C4_DetailedScoreBands ==
    ~IsEmpty(answers) =>
        /\ score \in 0..14
        /\ score >= 10 => classification = "GPAI" /\ "borderline" \notin DOMAIN session_state
        /\ score \in 6..9 =>
               /\ "borderline" \in DOMAIN session_state
               /\ classification = session_state["borderline"]
               /\ classification \in {"GPAI", "Not GPAI"}
        /\ score <= 5 =>
               classification = "Not GPAI" /\ "borderline" \notin DOMAIN session_state

\* a score of 10 with two "Partly" answers, classified without a manual decision
C4_Witness ==
    /\ ~IsEmpty(answers)
    /\ score = 10 /\ answers["training"] = "Partly" /\ answers["tasks"] = "Partly"
    /\ classification = "GPAI"

\* C5: in the systemic-risk stage, flops or state_of_art Yes gives "with systemic
\* risk" and no manual decision is asked for; otherwise scalability or scaffolding
\* Yes gives exactly the manual decision; otherwise the verdict is "without
\* systemic risk".
C5_SystemicRiskRule ==
    ~IsEmpty(sys_risk_answers) =>
        IF sys_risk_answers["flops"] = "Yes" \/ sys_risk_answers["state_of_art"] = "Yes"
        THEN /\ systemic_classification = WithSystemicRisk
             /\ "final_sys_decision" \notin DOMAIN session_state
        ELSE IF sys_risk_answers["scalability"] = "Yes" \/ sys_risk_answers["scaffolding"] = "Yes"
        THEN /\ "final_sys_decision" \in DOMAIN session_state
             /\ systemic_classification = session_state["final_sys_decision"]
             /\ systemic_classification \in {WithSystemicRisk, WithoutSystemicRisk}
        ELSE /\ systemic_classification = WithoutSystemicRisk
             /\ "final_sys_decision" \notin DOMAIN session_state

\* state_of_art alone is a hard trigger
C5_Witness ==
    /\ ~IsEmpty(sys_risk_answers)
    /\ sys_risk_answers["flops"] = "No" /\ sys_risk_answers["state_of_art"] = "Yes"
    /\ sys_risk_answers["scalability"] = "Yes"
    /\ systemic_classification = WithSystemicRisk

\* C6: the modification is substantial exactly when the weighted score of the
\* ratings is strictly above 3.5: a score of 3.5 or lower halts the run as a
\* minor modification, a higher one lets it continue.
C6_SubstantialIffAbove3_5 ==
    ModificationScored =>
        IF ExactOverallTimes1200 <= 35 * 120
        THEN pc = "Stopped" /\ stop_message = MsgMinor
        ELSE pc # "Stopped" /\ stop_message # MsgMinor

\* C7: the systemic-risk stage runs only when the GPAI-level verdict is GPAI (a
\* score of 10 or more, or a borderline score decided GPAI); when the verdict is
\* Not GPAI no systemic question is answered, no systemic verdict is produced and
\* the export names no systemic classification.
C7_SystemicOnlyForGPAI ==
    /\ (pc = "Step5" \/ ~IsEmpty(sys_risk_answers) \/ systemic_classification # Unbound) =>
           /\ classification = "GPAI"
           /\ score >= 10 \/ (score \in 6..9 /\ session_state["borderline"] = "GPAI")
    /\ classification = "Not GPAI" =>
           /\ score < 6 \/ (score \in 6..9 /\ session_state["borderline"] = "Not GPAI")
           /\ IsEmpty(sys_risk_answers)
           /\ systemic_classification = Unbound
           /\ pc \in {"Final", "End"}
           /\ pc = "End" => all_data["Systemic Risk Classification"] = "N/A"

\* a borderline score decided Not GPAI reaches the end with no systemic stage
C7_Witness ==
    /\ pc = "End" /\ classification = "Not GPAI" /\ score \in 6..9
    /\ IsEmpty(sys_risk_answers)

\* C8: the obligations shown depend on the verdict alone: six with systemic
\* risk, the three base ones without (a strict subset of the six), and none in
\* any run whose GPAI-level verdict is not GPAI, every early halt included.
C8_ObligationsByVerdict ==
    LET three == {"Provide technical documentation (Article 53(1)(a-b))",
                  "Public summary of training content (Article 53(1)(d))",
                  "Copyright compliance policy (Article 53(1)(c))"}
        shown == Range(obligations)
    IN  /\ systemic_classification = WithSystemicRisk =>
               /\ Cardinality(shown) = 6
               /\ three \subseteq shown /\ three # shown
        /\ systemic_classification = WithoutSystemicRisk => shown = three
        /\ classification # "GPAI" => shown = {}
        /\ (pc = "Final" /\ classification = "GPAI") => shown # {}

C8_Witness ==
    /\ systemic_classification = WithoutSystemicRisk
    /\ Len(obligations) = 3
    /\ pc = "End"

\* C9: when auto_exclude is Yes the run has stopped at Step 1 as excluded and
\* nothing of any later stage has run or been recorded.
C9_AutoExcludeHaltsEverything ==
    auto_exclude = "Yes" =>
        /\ pc = "Stopped" /\ stop_message = MsgExcluded
        /\ developed_internally = Unbound /\ thirdparty_modified = Unbound
        /\ IsEmpty(pre_answers)
        /\ IsEmpty(scores) /\ IsEmpty(avg) /\ IsEmpty(sub_mod_assessment)
        /\ IsEmpty(answers) /\ classification = Unbound
        /\ IsEmpty(sys_risk_answers) /\ systemic_classification = Unbound
        /\ obligations = <<>>
        /\ IsEmpty(session_state)
        /\ IsEmpty(all_data) /\ df = <<>>

C9_Witness == auto_exclude = "Yes" /\ pc = "Stopped"

\* C10: an unmodified third-party model halts as not a provider before any later
\* stage; an internal model never enters the modification assessment and goes
\* from the provider step to pre-screening; the modification assessment runs
\* only for a modified third-party model.
C10_ProviderGate ==
    /\ (developed_internally = "Third Party" /\ thirdparty_modified = "No") =>
           /\ pc = "Stopped" /\ stop_message = MsgNotProvider
           /\ IsEmpty(pre_answers) /\ IsEmpty(scores) /\ IsEmpty(answers)
           /\ IsEmpty(sys_risk_answers)
    /\ developed_internally = "Internally Developed" =>
           /\ IsEmpty(scores) /\ IsEmpty(avg) /\ IsEmpty(sub_mod_assessment)
           /\ overall_score = Unbound
           /\ stop_message \notin {MsgMinor, MsgNotProvider}
           /\ pc \in {"Step3", "Step4", "Step5", "Final", "End", "Stopped"}
           /\ IsEmpty(pre_answers) <=> pc = "Step3"
    /\ (pc \in Step3aSteps \/ ~IsEmpty(scores) \/ stop_message = MsgMinor) =>
           ThirdPartyModified

\* an internal model past pre-screening, with no rating collected
C10_Witness ==
    /\ developed_internally = "Internally Developed"
    /\ pc = "Step4" /\ IsEmpty(scores)

\* the prefixes under which the final step files the answers of a stage
StagePrefixes ==
    {"Step2_ModAssessment_", "Step3_PreScreen_", "Step4_Detailed_", "Step5_SysRisk_"}

\* the answers of stage dict d stand in the export under prefix, each under its own key
Exported(prefix, d) ==
    \A k \in DOMAIN d :
        (prefix \o k) \in DOMAIN all_data /\ all_data[prefix \o k] = d[k]

\* C11: the export record of a completed run holds every recorded answer under a
\* stage-namespaced key, no two answers under one key, and, when the
\* modification assessment was run, the overall score and a column for each
\* individual subcriterion rating, not only the group averages.
C11_ExportHoldsEveryAnswer ==
    pc = "End" =>
        /\ Exported("Step3_PreScreen_", pre_answers)
        /\ Exported("Step4_Detailed_", answers)
        /\ Exported("Step5_SysRisk_", sys_risk_answers)
        /\ Cardinality(DOMAIN all_data) =
               6 + Cardinality(DOMAIN sub_mod_assessment) + Cardinality(DOMAIN pre_answers)
                 + Cardinality(DOMAIN answers) + Cardinality(DOMAIN sys_risk_answers)
        /\ ~IsEmpty(scores) =>
               /\ "Step2_ModAssessment_overall_score" \in DOMAIN all_data
               /\ \A g \in DOMAIN scores : \A k \in DOMAIN scores[g] :
                      \E prefix \in StagePrefixes :
                          \/ (prefix \o k) \in DOMAIN all_data
                          \/ (prefix \o g \o "_" \o k) \in DOMAIN all_data

\* a float times 2^60 for the whole number n
Whole(n) == Zeros(4) \o <<n>>

\* float x is the quotient num / den to within den half-units in the last
\* place of a float below 8, that is, the quotient rounded to a float
IsRoundedQuotient(x, num, den) ==
    /\ BigCmp(MulSmall(x, den, 0), BigAdd(Whole(num), <<den * 2^9>>)) <= 0
    /\ BigCmp(BigAdd(MulSmall(x, den, 0), <<den * 2^9>>), Whole(num)) >= 0

\* C12: each group average is the arithmetic mean of that group's own ratings
\* and of nothing else, the five weights 0.30, 0.25, 0.20, 0.15 and 0.10 add up
\* to exactly 1, and the overall score lies in [1, 5], being 1 when every
\* rating is 1 and 5 when every rating is 5.
C12_MeansWeightsAndRange ==
    /\ \A g \in DOMAIN avg :
           IsRoundedQuotient(avg[g], SumValues(scores[g]), Len(Subcriteria(g)))
    /\ FloatAdd(FloatAdd(FloatAdd(FloatAdd(
           GroupWeight("intended_purpose"), GroupWeight("architectural")),
           GroupWeight("data")), GroupWeight("performance")),
           GroupWeight("future_deployment")) = Whole(1)
    /\ ModificationScored =>
           /\ FloatLeq(Whole(1), overall_score) /\ FloatLeq(overall_score, Whole(5))
           /\ (\A g \in DOMAIN scores : \A k \in DOMAIN scores[g] : scores[g][k] = 1)
                  => overall_score = Whole(1)
           /\ (\A g \in DOMAIN scores : \A k \in DOMAIN scores[g] : scores[g][k] = 5)
                  => overall_score = Whole(5)

\* a mixed data group (5, 4, 4, 4: mean 4.25) beside groups rated 1 and 5 alike
C12_Witness ==
    /\ ModificationScored
    /\ SumValues(scores["data"]) = 17 /\ avg["data"] = FloatDiv(17, 4)
    /\ SumValues(scores["intended_purpose"]) = 3
    /\ SumValues(scores["architectural"]) = 10

====
